---- MODULE Spec2Model ----
(***************************************************************************)
(* NetRecon: the IP resolution pipeline (geoip_resolver.lookup_ip and the  *)
(* GET /ip/<ip> route), the domain resolver with its two LRU caches        *)
(* (domain_resolver.resolve_domain_for_ip) and the metrics collector       *)
(* (metrics.Metrics).                                                      *)
(*                                                                         *)
(* Representation of Python values:                                        *)
(*   None            <<>>                                                  *)
(*   a present value <<v>>          (Some(v))                              *)
(*   an IP string    the tuple of its numeric groups: "10.0.0.5" is        *)
(*                   <<10,0,0,5>>, an IPv6 address its eight groups        *)
(*   a host name     the tuple of its dot-separated labels: "a.b" is       *)
(*                   <<"a","b">>, the empty string is <<"">>               *)
(*   an error string the tuple of its tokens: "lookup_error:io" is         *)
(*                   <<"lookup_error", ":", "io">>                         *)
(***************************************************************************)
EXTENDS Integers, Sequences, FiniteSets, TLC

VARIABLES
    \* ---- pipeline (geoip_resolver.py, app.py) ----
    COUNTRY_META,   \* the country table loaded at import
    req,            \* the last GET /ip/<ip> request: [ip, compat]
    env,            \* what the backends did during it: [city, tz, cc, asn, dns]
    ret,            \* what lookup_ip returned for it: [data, err]
    calls,          \* the backends lookup_ip called, in order
    resp,           \* the HTTP response: [status, body]
    warm,           \* the first domain resolution made: <<>> or <<[ip, domain]>>
    \* ---- domain resolver (domain_resolver.py) ----
    cfg,            \* the settings read at import: [enabled, rdns, peeringdb]
    rdnsCache,      \* lru_cache of _reverse_dns_cached: entries [key, val], oldest first
    pdbCache,       \* lru_cache of _fetch_peeringdb_website_html_cached, likewise
    dres,           \* the last resolve_domain_for_ip call: [ip, asn, result, raised, net]
    \* ---- metrics collector (metrics.py) ----
    m,              \* the fields of the Metrics object
    lock,           \* Metrics._lock: 0 when free, else the thread holding it
    th,             \* each thread's position and locals
    clock,          \* time(): advances with every reading
    done,           \* the record_request calls completed, per status code
    \* ---- timezone enrichment (geoip_resolver._build_timezone_info) ----
    tzinfo,         \* the last offset formatted: [offset, utc]
    \* ---- threads resolving through the shared caches ----
    rt,             \* each resolving thread's position and locals
    ncalls,         \* the cached-function calls started
    used            \* per cached function, what the strategy returned for each
                    \* key, in the order of the keys' last use

pipeVars == <<COUNTRY_META, req, env, ret, calls, resp, warm>>

domVars == <<cfg, rdnsCache, pdbCache, dres>>
metVars == <<m, lock, th, clock, done>>
tzVars == <<tzinfo>>
resVars == <<rt, ncalls, used>>

None == <<>>
Some(v) == <<v>>

(***************************************************************************)
(* ipaddress.ip_address and the address classes domain_resolver tests.     *)
(***************************************************************************)

\* ip_address without the range check on IPv4 groups
ip_address_norange(ip) ==
    IF Len(ip) = 4 THEN "ipv4"
    ELSE IF Len(ip) = 8 /\ \A i \in 1..8 : ip[i] \in 0..65535 THEN "ipv6"
    ELSE "ValueError"

\* ipaddress.ip_address(ip): the version, or ValueError
ip_address(ip) ==
    IF Len(ip) = 4 /\ \A i \in 1..4 : ip[i] \in 0..255 THEN "ipv4"
    ELSE IF Len(ip) = 8 /\ \A i \in 1..8 : ip[i] \in 0..65535 THEN "ipv6"
    ELSE "ValueError"

\* ---------------------------------------------------------------------------
\* Country metadata (data/country_meta.json), keyed by ISO code; a code is the
\* pair of its letters' code points ("US" is <<85, 83>>).
\* ---------------------------------------------------------------------------
CC_US == <<85, 83>>
CC_BE == <<66, 69>>
CC_XX == <<88, 88>>

\* the table when the file is present: US carries a full flag entry, BE none
CountryMetaFile ==
    [cc \in {CC_US, CC_BE} |->
        IF cc = CC_US
        THEN [calling_code |-> Some("+1"), capital |-> Some("Washington"),
              borders |-> Some(<<"CA", "MX">>),
              flag |-> Some([svg |-> Some("us.svg"), emoji |-> Some(<<127482, 127480>>),
                             emoji_unicode |-> Some(<<127482, 127480>>)])]
        ELSE [calling_code |-> Some("+32"), capital |-> Some("Brussels"),
              borders |-> Some(<<"FR", "DE", "LU", "NL">>),
              flag |-> None]]

\* the table when the file is missing (FileNotFoundError at import)
CountryMetaMissing == [cc \in {} |-> None]

\* _country_code_to_emoji: None unless the code has two characters, else the
\* two regional indicators base + (ord(c) - ord("A"))
RegionalBase == 127462
OrdA == 65
country_code_to_emoji(cc) ==
    IF cc = None \/ Len(cc[1]) # 2 THEN None
    ELSE Some(<<RegionalBase + (cc[1][1] - OrdA), RegionalBase + (cc[1][2] - OrdA)>>)

\* _emoji_to_unicode_codes: the code points of the emoji (their U+XXXX list)
emoji_to_unicode_codes(emoji) == IF emoji = None \/ emoji[1] = <<>> THEN None ELSE emoji

\* `a or b` on optional values
OrElse(a, b) == IF a # None THEN a ELSE b

\* ---------------------------------------------------------------------------
\* Timezone enrichment
\* ---------------------------------------------------------------------------
\* zoneinfo.ZoneInfo(tz_name) loads
ZoneLoadable(tz) == tz \in {"America/Chicago", "UTC", "Asia/Kolkata"}

\* now.utcoffset() in seconds, at a summer or a winter instant
ZoneOffset(tz, summer) ==
    CASE tz = "America/Chicago" -> IF summer THEN -18000 ELSE -21600
      [] tz = "Asia/Kolkata" -> 19800
      [] OTHER -> 0

\* now.dst() in seconds
ZoneDst(tz, summer) == IF tz = "America/Chicago" /\ summer THEN 3600 ELSE 0

Abs(n) == IF n >= 0 THEN n ELSE -n

\* f"{n:02d}": at least two decimal digits
RECURSIVE Digits(_)
Digits(n) == IF n < 10 THEN <<n>> ELSE Digits(n \div 10) \o <<n % 10>>
Fmt02d(n) == IF n < 10 THEN <<0, n>> ELSE Digits(n)

\* FormatUtc giving "+" to positive offsets only
FormatUtc_positiveonly(offset_seconds) ==
    LET sign == IF offset_seconds > 0 THEN "+" ELSE "-"
        abs_total == Abs(offset_seconds)
        hours == abs_total \div 3600
        minutes == (abs_total % 3600) \div 60
    IN  [sign |-> sign, hh |-> Fmt02d(hours), mm |-> Fmt02d(minutes)]

\* the "+HH:MM" string: [sign, hh, mm], hh and mm as digit sequences
FormatUtc(offset_seconds) ==
    LET sign == IF offset_seconds >= 0 THEN "+" ELSE "-"
        abs_total == Abs(offset_seconds)
        hours == abs_total \div 3600
        minutes == (abs_total % 3600) \div 60
    IN  [sign |-> sign, hh |-> Fmt02d(hours), mm |-> Fmt02d(minutes)]

\* build_timezone_info letting an unloadable zone through to the offset computation
build_timezone_info_noguard(tz_name, summer) ==
    IF tz_name = None \/ tz_name[1] = "" THEN None
    ELSE LET offset_seconds == ZoneOffset(tz_name[1], summer)
         IN  Some([id |-> tz_name[1], full |-> TRUE,
                   is_dst |-> (ZoneDst(tz_name[1], summer) # 0),
                   offset |-> offset_seconds,
                   utc |-> Some(FormatUtc(offset_seconds))])

\* _build_timezone_info(tz_name) at a summer or winter instant
build_timezone_info(tz_name, summer) ==
    IF tz_name = None \/ tz_name[1] = "" THEN None
    ELSE IF ~ZoneLoadable(tz_name[1])
         THEN Some([id |-> tz_name[1], full |-> FALSE, is_dst |-> FALSE,
                    offset |-> 0, utc |-> None])
    ELSE LET offset_seconds == ZoneOffset(tz_name[1], summer)
         IN  Some([id |-> tz_name[1], full |-> TRUE,
                   is_dst |-> (ZoneDst(tz_name[1], summer) # 0),
                   offset |-> offset_seconds,
                   utc |-> Some(FormatUtc(offset_seconds))])

\* now.utcoffset() in whole seconds: a timedelta strictly between -24 h and 24 h
UtcOffsets == -86399..86399

\* no zone loaded yet
TzInit == tzinfo = [offset |-> 0, utc |-> None]

\* a zone loaded, whose offset at the instant of the call is any of them
TzLoaded == tzinfo \in [offset : UtcOffsets, utc : {None}]

\* lines 95-100 of _build_timezone_info: the string made of offset_seconds
format_offset ==
    tzinfo' = [tzinfo EXCEPT !.utc = Some(FormatUtc(tzinfo.offset))]

\* ---------------------------------------------------------------------------
\* Reverse DNS as the pipeline does it (geoip_resolver._lookup_domain)
\* ---------------------------------------------------------------------------
\* the last two labels
LastTwo(parts) == <<parts[Len(parts) - 1], parts[Len(parts)]>>

\* what socket.gethostbyaddr can do: raise herror (or gaierror, handled by the
\* same clause), raise another exception (a timeout), or return a host name
HostNames == { <<"Mail", "corp", "Example", "COM">>, <<"LocalHost">>, <<"">> }
DnsOutcomes ==
    { [kind |-> k, hostname |-> <<"">>] : k \in {"herror", "timeout"} }
    \cup { [kind |-> "ok", hostname |-> h] : h \in HostNames }

\* _lookup_domain(ip), given what gethostbyaddr does
lookup_domain(dns) ==
    IF dns.kind # "ok" THEN None
    ELSE IF Len(dns.hostname) >= 2 THEN Some(LastTwo(dns.hostname))
    ELSE IF dns.hostname = <<"">> THEN None ELSE Some(dns.hostname)

\* ---------------------------------------------------------------------------
\* ASN lookup and the connection record (geoip_resolver._lookup_connection)
\* ---------------------------------------------------------------------------
AsnOutcomes ==
    { [kind |-> k, asn |-> 0, org |-> "", network |-> ""] : k \in {"not_found", "error"} }
    \cup { [kind |-> "ok", asn |-> 15169, org |-> "Google LLC", network |-> "8.8.8.0/24"] }

\* whether _lookup_connection reaches its call of _lookup_domain
DomainStepRuns(asnOut) == asnOut.kind = "ok"

\* _lookup_connection(ip): the connection and the backends it called
lookup_connection(asnOut, dns) ==
    IF ~DomainStepRuns(asnOut) THEN [connection |-> None, calls |-> <<"asn">>]
    ELSE [connection |-> Some([asn |-> asnOut.asn, org |-> asnOut.org,
                               isp |-> asnOut.org, route |-> asnOut.network,
                               domain |-> lookup_domain(dns)]),
          calls |-> <<"asn", "rdns">>]

\* ---------------------------------------------------------------------------
\* Address classes (ipaddress: is_private, is_loopback, is_reserved, is_link_local)
\* ---------------------------------------------------------------------------
is_loopback(ip) ==
    IF Len(ip) = 4 THEN ip[1] = 127 ELSE ip = <<0, 0, 0, 0, 0, 0, 0, 1>>

is_link_local(ip) ==
    IF Len(ip) = 4 THEN ip[1] = 169 /\ ip[2] = 254
    ELSE ip[1] \in 65152..65215                  \* fe80::/10

is_reserved(ip) ==
    IF Len(ip) = 4 THEN ip[1] >= 240             \* 240.0.0.0/4
    ELSE \/ ip[1] \in 0..8191                    \* ::/8 ... 1000::/4
         \/ ip[1] \in 16384..64511               \* 4000::/3 ... f800::/6
         \/ ip[1] \in 65024..65151               \* fe00::/9

is_private(ip) ==
    IF Len(ip) = 4
    THEN \/ ip[1] \in {0, 10, 127}
         \/ ip[1] = 169 /\ ip[2] = 254
         \/ ip[1] = 172 /\ ip[2] \in 16..31
         \/ ip[1] = 192 /\ ip[2] = 0 /\ ip[3] = 0 /\ ip[4] \in (0..7) \cup {170, 171}
         \/ ip[1] = 192 /\ ip[2] = 0 /\ ip[3] = 2
         \/ ip[1] = 192 /\ ip[2] = 168
         \/ ip[1] = 198 /\ ip[2] \in {18, 19}
         \/ ip[1] = 198 /\ ip[2] = 51 /\ ip[3] = 100
         \/ ip[1] = 203 /\ ip[2] = 0 /\ ip[3] = 113
         \/ ip[1] >= 240
    ELSE \/ ip = <<0, 0, 0, 0, 0, 0, 0, 0>> \/ ip = <<0, 0, 0, 0, 0, 0, 0, 1>>
         \/ ip[1] = 8193 /\ ip[2] < 512          \* 2001::/23
         \/ ip[1] = 8193 /\ ip[2] = 3512         \* 2001:db8::/32
         \/ ip[1] \in 64512..65023               \* fc00::/7
         \/ ip[1] \in 65152..65215               \* fe80::/10

\* Skips without the is_private test
Skips_noprivate(ip) ==
    \/ ip_address(ip) = "ValueError"
    \/ is_loopback(ip) \/ is_reserved(ip) \/ is_link_local(ip)

\* resolve_domain_for_ip bails out before any lookup: the address is invalid
\* or non-routable
Skips(ip) ==
    \/ ip_address(ip) = "ValueError"
    \/ is_private(ip) \/ is_loopback(ip) \/ is_reserved(ip) \/ is_link_local(ip)

\* ---------------------------------------------------------------------------
\* functools.lru_cache(maxsize): a sequence of [key, val], least recently used first
\* ---------------------------------------------------------------------------
CacheKeys(c) == { c[i].key : i \in DOMAIN c }
CacheHas(c, k) == k \in CacheKeys(c)
CacheGet(c, k) == (CHOOSE i \in DOMAIN c : c[i].key = k)
CacheVal(c, k) == c[CacheGet(c, k)].val

\* a hit that leaves the entry where it is
CacheTouch_nomove(c, k) == c

\* a hit moves the entry to the most recently used end
CacheTouch(c, k) ==
    SelectSeq(c, LAMBDA e : e.key # k) \o <<c[CacheGet(c, k)]>>

\* a cache that stores successful results only
CacheStore_skipnone(c, k, v, maxsize) ==
    IF v = <<>> THEN c
    ELSE IF Len(c) >= maxsize THEN Tail(c) \o <<[key |-> k, val |-> v]>>
    ELSE c \o <<[key |-> k, val |-> v]>>

\* a miss stores the result, evicting the least recently used entry of a full cache
CacheStore(c, k, v, maxsize) ==
    IF Len(c) >= maxsize THEN Tail(c) \o <<[key |-> k, val |-> v]>>
    ELSE c \o <<[key |-> k, val |-> v]>>

\* the store made without looking whether the key has been added meanwhile
CacheInsert_norecheck(c, k, v, maxsize) == CacheStore(c, k, v, maxsize)

\* the store after the wrapped function returns: the key may have been added
\* by another thread during the call, and then the entry is left as it is
CacheInsert(c, k, v, maxsize) ==
    IF CacheHas(c, k) THEN c ELSE CacheStore(c, k, v, maxsize)

REVERSE_DNS_CACHE_SIZE == 2
PEERINGDB_CACHE_SIZE == 2

\* ---------------------------------------------------------------------------
\* _reverse_dns_cached
\* ---------------------------------------------------------------------------
\* str.lower on a label
LowerLabel(l) ==
    CASE l = "Mail" -> "mail"
      [] l = "Example" -> "example"
      [] l = "COM" -> "com"
      [] l = "LocalHost" -> "localhost"
      [] l = "OVHcloud" -> "ovhcloud"
      [] l = "NET" -> "net"
      [] l = "WWW." -> "www."
      [] l = "HTTP://" -> "http://"
      [] OTHER -> l

Lower(labels) == [i \in DOMAIN labels |-> LowerLabel(labels[i])]

\* the body of _reverse_dns_cached, given what gethostbyaddr does
reverse_dns(dns) ==
    IF dns.kind # "ok" THEN None
    ELSE IF dns.hostname = <<"">> THEN None
    ELSE IF Len(dns.hostname) >= 2 THEN Some(Lower(LastTwo(dns.hostname)))
    ELSE Some(Lower(dns.hostname))

\* ---------------------------------------------------------------------------
\* _fetch_peeringdb_website_html_cached
\* ---------------------------------------------------------------------------
\* A website string is the sequence of its tokens: a scheme ("http://"), the
\* "www." prefix, host labels and the dots between them, a path ("/about"),
\* blanks (" ") and an opening bracket ("[").
SchemeTokens == { "http://", "https://", "HTTP://" }
IsPathToken(t) == t \in { "/about", "/" }

Websites ==
    { <<"https://", "www.", "OVHcloud", ".", "com">>,     \* https://www.OVHcloud.com
      <<" ", "Example", ".", "NET", "/about", " ">>,     \* " Example.NET/about "
      <<"http://", "[", "2001:db8::1">>,                  \* http://[2001:db8::1
      <<" ">>,                                            \* blank
      <<>> }                                              \* empty

\* str.strip
RECURSIVE LStrip(_)
LStrip(v) == IF v # <<>> /\ Head(v) = " " THEN LStrip(Tail(v)) ELSE v
RECURSIVE RStrip(_)
RStrip(v) == IF v # <<>> /\ v[Len(v)] = " " THEN RStrip(SubSeq(v, 1, Len(v) - 1)) ELSE v
Strip(v) == RStrip(LStrip(v))

\* what requests.get and the page can do: the request raises; a status other
\* than 200; BeautifulSoup raises; no website element; the element with a
\* link (href attribute and text) or with text only
HttpOutcomes ==
    { [kind |-> k, link |-> FALSE, href |-> None, text |-> <<>>] :
        k \in {"request_failed", "status_404", "unparsable", "no_div"} }
    \cup { [kind |-> "div", link |-> TRUE, href |-> Some(w), text |-> <<>>] : w \in Websites }
    \cup { [kind |-> "div", link |-> TRUE, href |-> None, text |-> w] : w \in Websites }
    \cup { [kind |-> "div", link |-> FALSE, href |-> None, text |-> w] : w \in Websites }

\* `s or None` on a string
StrOrNone(s) == IF s = <<>> THEN None ELSE Some(s)

\* the body of _fetch_peeringdb_website_html_cached, given what the site does
fetch_peeringdb_website(http) ==
    IF http.kind # "div" THEN None
    ELSE IF http.link
         THEN IF http.href # None /\ http.href[1] # <<>> THEN http.href
              ELSE StrOrNone(Strip(http.text))
    ELSE StrOrNone(Strip(http.text))

\* ---------------------------------------------------------------------------
\* _normalize_domain
\* ---------------------------------------------------------------------------
\* the tokens of v before the first path token, and from it on
RECURSIVE NetlocOf(_)
NetlocOf(v) ==
    IF v = <<>> \/ IsPathToken(Head(v)) THEN <<>> ELSE <<Head(v)>> \o NetlocOf(Tail(v))
PathOf(v) == SubSeq(v, Len(NetlocOf(v)) + 1, Len(v))

InSeq(x, v) == \E i \in DOMAIN v : v[i] = x

\* urllib.parse.urlparse on a value that starts with a scheme: ValueError for
\* an unbalanced bracket in the netloc, else the lower-cased hostname (None
\* when empty) and the path
urlparse(v) ==
    LET rest == Tail(v)
        netloc == NetlocOf(rest)
    IN  IF InSeq("[", netloc) /\ ~InSeq("]", netloc)
        THEN [raised |-> Some("ValueError"), hostname |-> None, path |-> <<>>]
        ELSE [raised |-> None, hostname |-> StrOrNone(Lower(netloc)), path |-> PathOf(rest)]

\* the labels of a host: its tokens without the dots
Labels(host) == SelectSeq(host, LAMBDA t : t # ".")

\* _normalize_domain(value): [raised, domain]
normalize_domain(value) ==
    IF value = None \/ value[1] = <<>> THEN [raised |-> None, domain |-> None]
    ELSE LET stripped == Strip(value[1])
         IN  IF stripped = <<>> THEN [raised |-> None, domain |-> None]
             ELSE LET withScheme ==
                          IF \E i \in DOMAIN stripped : stripped[i] \in SchemeTokens
                          THEN stripped ELSE <<"http://">> \o stripped
                      parsed == urlparse(withScheme)
                  IN  IF parsed.raised # None THEN [raised |-> parsed.raised, domain |-> None]
                      ELSE LET host == IF parsed.hostname # None THEN parsed.hostname[1]
                                       ELSE parsed.path
                           IN  IF host = <<>> THEN [raised |-> None, domain |-> None]
                               ELSE LET bare == IF Head(host) = "www." THEN Tail(host)
                                                ELSE host
                                    IN  [raised |-> None,
                                         domain |-> Some(Labels(Lower(bare)))]

\* ---------------------------------------------------------------------------
\* resolve_domain_for_ip
\* ---------------------------------------------------------------------------
\* the arguments of the calls: "999.1.1.1", "10.0.0.5", "127.0.0.1",
\* "169.254.1.1", "240.0.0.1", "4000::1", "8.8.8.8", "1.1.1.1"
DomainAddresses ==
    { <<999, 1, 1, 1>>, <<10, 0, 0, 5>>, <<127, 0, 0, 1>>, <<169, 254, 1, 1>>,
      <<240, 0, 0, 1>>, <<16384, 0, 0, 0, 0, 0, 0, 1>>,
      <<8, 8, 8, 8>>, <<1, 1, 1, 1>> }
AsnArgs == { None, Some(15169), Some(16276) }

\* a stage was invoked: the cached function called, whether its cache
\* answered, and what it returned
Invoked(stage, hit, val) == [stage |-> stage, hit |-> hit, val |-> val]

\* the call returns (or raises), leaving the caches as c1 and c2; net lists the
\* network calls made and stages the cached functions invoked, in order
Return(ip, asn, c1, c2, result, raised, net, stages) ==
    /\ rdnsCache' = c1
    /\ pdbCache' = c2
    /\ dres' = [ip |-> ip, asn |-> asn, result |-> result, raised |-> raised,
                net |-> net, stages |-> stages]
    /\ UNCHANGED cfg

\* lines 146-148: normalize the website the registry stage produced
AfterWebsite(ip, asn, c1, c2, website_url, net, stages) ==
    IF website_url = None \/ website_url[1] = <<>>
    THEN Return(ip, asn, c1, c2, None, None, net, stages)
    ELSE LET n == normalize_domain(website_url)
         IN  IF n.raised # None THEN Return(ip, asn, c1, c2, None, n.raised, net, stages)
             ELSE IF n.domain # None /\ n.domain[1] # <<>>
             THEN Return(ip, asn, c1, c2, n.domain, None, net, stages)
             ELSE Return(ip, asn, c1, c2, None, None, net, stages)

\* lines 142-150: the registry stage, through its cache
RegistryStage(ip, asn, c1, net, stages) ==
    IF cfg.peeringdb /\ asn # None
    THEN IF CacheHas(pdbCache, asn[1])
         THEN AfterWebsite(ip, asn, c1, CacheTouch(pdbCache, asn[1]),
                           CacheVal(pdbCache, asn[1]), net,
                           stages \o <<Invoked("registry", TRUE, CacheVal(pdbCache, asn[1]))>>)
         ELSE \E http \in HttpOutcomes :
                 LET w == fetch_peeringdb_website(http)
                 IN  AfterWebsite(ip, asn, c1,
                                  CacheStore(pdbCache, asn[1], w, PEERINGDB_CACHE_SIZE),
                                  w, net \o <<"registry">>,
                                  stages \o <<Invoked("registry", FALSE, w)>>)
    ELSE Return(ip, asn, c1, pdbCache, None, None, net, stages)

\* AfterRdns going on to the registry whatever reverse DNS gave
AfterRdns_fallthrough(ip, asn, c1, rdns_domain, net, stages) ==
    RegistryStage(ip, asn, c1, net, stages)

\* lines 138-140: the reverse-DNS result wins when there is one
AfterRdns(ip, asn, c1, rdns_domain, net, stages) ==
    IF rdns_domain # None
    THEN Return(ip, asn, c1, pdbCache, rdns_domain, None, net, stages)
    ELSE RegistryStage(ip, asn, c1, net, stages)

\* one call resolve_domain_for_ip(ip, asn), with what DNS and the registry do
\* when they are reached
resolve_domain_for_ip ==
    \E ip \in DomainAddresses, asn \in AsnArgs :
        IF ~cfg.enabled \/ Skips(ip)
        THEN Return(ip, asn, rdnsCache, pdbCache, None, None, <<>>, <<>>)
        ELSE IF cfg.rdns
        THEN IF CacheHas(rdnsCache, ip)
             THEN AfterRdns(ip, asn, CacheTouch(rdnsCache, ip), CacheVal(rdnsCache, ip),
                            <<>>, <<Invoked("rdns", TRUE, CacheVal(rdnsCache, ip))>>)
             ELSE \E dns \in DnsOutcomes :
                     LET d == reverse_dns(dns)
                     IN  AfterRdns(ip, asn,
                                   CacheStore(rdnsCache, ip, d, REVERSE_DNS_CACHE_SIZE),
                                   d, <<"rdns">>, <<Invoked("rdns", FALSE, d)>>)
        ELSE RegistryStage(ip, asn, rdnsCache, <<>>, <<>>)

\* the settings: each toggle either way
Settings == [enabled : BOOLEAN, rdns : BOOLEAN, peeringdb : BOOLEAN]
DefaultSettings == [enabled |-> TRUE, rdns |-> TRUE, peeringdb |-> TRUE]

NoCall ==
    [ip |-> <<>>, asn |-> None, result |-> None, raised |-> None, net |-> <<>>,
     stages |-> <<>>]

\* the resolver module after import, under given settings
DomInit(settings) ==
    /\ cfg = settings
    /\ rdnsCache = <<>>
    /\ pdbCache = <<>>
    /\ dres = NoCall

\* ---------------------------------------------------------------------------
\* Threads calling the two cached functions concurrently
\* ---------------------------------------------------------------------------
NumResolvers == 2
MaxCalls == 3

Resolvers == 1..NumResolvers

\* the two cached functions and their arguments: "8.8.8.8", "1.1.1.1",
\* "9.9.9.9"; ASNs 15169, 16276, 13335 (a key is the tuple of the argument)
CachedFunctions == { "rdns", "pdb" }
KeysOf(fn) ==
    IF fn = "rdns" THEN { <<8, 8, 8, 8>>, <<1, 1, 1, 1>>, <<9, 9, 9, 9>> }
    ELSE { <<15169>>, <<16276>>, <<13335>> }

CacheOf(fn) == IF fn = "rdns" THEN rdnsCache ELSE pdbCache
MaxSize(fn) == IF fn = "rdns" THEN REVERSE_DNS_CACHE_SIZE ELSE PEERINGDB_CACHE_SIZE

\* what the network does under these calls
LookupDns ==
    { [kind |-> "herror", hostname |-> <<"">>], [kind |-> "timeout", hostname |-> <<"">>],
      [kind |-> "ok", hostname |-> <<"Mail", "corp", "Example", "COM">>] }
LookupHttp ==
    { [kind |-> k, link |-> FALSE, href |-> None, text |-> <<>>] :
        k \in {"request_failed", "status_404", "no_div"} }
    \cup { [kind |-> "div", link |-> TRUE,
            href |-> Some(<<"https://", "www.", "OVHcloud", ".", "com">>), text |-> <<>>] }

\* a thread outside the cached functions
IdleThread == [pc |-> "idle", fn |-> "", key |-> <<>>, val |-> None, hit |-> FALSE, net |-> 0]

ResInit ==
    /\ rt = [t \in Resolvers |-> IdleThread]
    /\ ncalls = 0
    /\ used = [fn \in CachedFunctions |-> <<>>]

\* the record of uses u after key k, for which the strategy returned v, is used
Recent(u, k, v) == SelectSeq(u, LAMBDA e : e.key # k) \o <<[key |-> k, val |-> v]>>

\* what the strategy returned for k when it last ran
Returned(u, k) == u[CHOOSE i \in DOMAIN u : u[i].key = k].val

\* the cache of fn becomes c
SetCache(fn, c) ==
    /\ rdnsCache' = IF fn = "rdns" THEN c ELSE rdnsCache
    /\ pdbCache' = IF fn = "pdb" THEN c ELSE pdbCache
    /\ UNCHANGED <<cfg, dres>>

\* thread t calls a cached function: the wrapper looks the key up, and on a
\* hit returns the entry, now the most recently used
Lookup(t) ==
    /\ rt[t].pc = "idle"
    /\ \E fn \in CachedFunctions : \E key \in KeysOf(fn) :
          IF CacheHas(CacheOf(fn), key)
          THEN /\ SetCache(fn, CacheTouch(CacheOf(fn), key))
               /\ used' = [used EXCEPT ![fn] = Recent(@, key, Returned(@, key))]
               /\ rt' = [rt EXCEPT ![t] = [pc |-> "ret", fn |-> fn, key |-> key,
                                           val |-> CacheVal(CacheOf(fn), key),
                                           hit |-> TRUE, net |-> 0]]
          ELSE /\ rt' = [rt EXCEPT ![t] = [pc |-> "call", fn |-> fn, key |-> key,
                                           val |-> None, hit |-> FALSE, net |-> 0]]
               /\ UNCHANGED <<domVars, used>>

\* a call started while the budget of calls lasts
StartLookup(t) ==
    /\ ncalls < MaxCalls
    /\ ncalls' = ncalls + 1
    /\ Lookup(t)

\* on a miss the wrapped function runs, outside any lock: _reverse_dns_cached
GetHostByAddr(t) ==
    /\ rt[t].pc = "call" /\ rt[t].fn = "rdns"
    /\ \E dns \in LookupDns :
          rt' = [rt EXCEPT ![t].pc = "insert", ![t].val = reverse_dns(dns),
                           ![t].net = @ + 1]
    /\ UNCHANGED <<domVars, ncalls, used>>

\* ... or _fetch_peeringdb_website_html_cached
HttpGet(t) ==
    /\ rt[t].pc = "call" /\ rt[t].fn = "pdb"
    /\ \E http \in LookupHttp :
          rt' = [rt EXCEPT ![t].pc = "insert", ![t].val = fetch_peeringdb_website(http),
                           ![t].net = @ + 1]
    /\ UNCHANGED <<domVars, ncalls, used>>

\* the wrapper stores what the function returned
Insert(t) ==
    /\ rt[t].pc = "insert"
    /\ SetCache(rt[t].fn, CacheInsert(CacheOf(rt[t].fn), rt[t].key, rt[t].val,
                                      MaxSize(rt[t].fn)))
    /\ used' = IF CacheHas(CacheOf(rt[t].fn), rt[t].key) THEN used
               ELSE [used EXCEPT ![rt[t].fn] = Recent(@, rt[t].key, rt[t].val)]
    /\ rt' = [rt EXCEPT ![t].pc = "ret"]
    /\ UNCHANGED ncalls

\* the call returns val
ReturnCall(t) ==
    /\ rt[t].pc = "ret"
    /\ rt' = [rt EXCEPT ![t] = IdleThread]
    /\ UNCHANGED <<domVars, ncalls, used>>

\* ---------------------------------------------------------------------------
\* Metrics (metrics.py): threads calling record_request and snapshot
\* ---------------------------------------------------------------------------
NumThreads == 2
MaxRequests == 3

Threads == 1..NumThreads

\* the requests recorded: the path and status code after_request passes
Requests ==
    { [path |-> "/ip/8.8.8.8", status |-> 200], [path |-> "/ip/8.8.8.8", status |-> 500],
      [path |-> "/ip/999.1.1.1", status |-> 400], [path |-> "/ip/10.0.0.5", status |-> 404] }
Paths == { r.path : r \in Requests }
StatusCodes == { r.status : r \in Requests }
Durations == { 7 }

\* record_request's test with the upper bound included
IsSuccess_inclusive(status_code) == 200 <= status_code /\ status_code <= 400

\* line 33: 200 <= status_code < 400
IsSuccess(status_code) == 200 <= status_code /\ status_code < 400

\* a lock that never blocks
CanAcquire_always(t) == TRUE

\* threading.Lock: acquired only when free
CanAcquire(t) == lock = 0

\* Metrics.__init__
MetInit ==
    /\ m = [total_requests |-> 0, total_errors |-> 0, total_success |-> 0,
            path_counters |-> [p \in Paths |-> 0],
            status_counters |-> [c \in StatusCodes |-> 0],
            last_request_timestamp |-> 0, total_latency_ms |-> 0]
    /\ lock = 0
    /\ th = [t \in Threads |->
                [pc |-> "idle", path |-> "", status |-> 0, duration |-> 0,
                 now_ts |-> 0, tmp |-> 0, snap |-> None]]
    /\ clock = 0
    /\ done = [c \in StatusCodes |-> 0]

RECURSIVE SumOver(_, _)
SumOver(f, S) ==
    IF S = {} THEN 0 ELSE LET x == CHOOSE y \in S : TRUE IN f[x] + SumOver(f, S \ {x})

\* thread t moves from pc `from` to `to`
Goto(t, from, to) ==
    /\ th[t].pc = from
    /\ th' = [th EXCEPT ![t].pc = to, ![t].tmp = 0]

\* thread t loads a value into its temporary
Load(t, from, to, value) ==
    /\ th[t].pc = from
    /\ th' = [th EXCEPT ![t].pc = to, ![t].tmp = value]
    /\ UNCHANGED <<m, lock, clock, done>>

\* thread t stores into the object
Store(t, from, to, newM) ==
    /\ Goto(t, from, to)
    /\ m' = newM
    /\ UNCHANGED <<lock, clock, done>>

\* record_request(path, status_code, duration_ms): lines 23-24, the time is
\* read before the lock is taken
RecordBegin(t) ==
    \E r \in Requests, duration \in Durations :
        /\ th[t].pc = "idle"
        /\ clock < MaxRequests
        /\ clock' = clock + 1
        /\ th' = [th EXCEPT ![t] = [pc |-> "rec_acquire", path |-> r.path, status |-> r.status,
                                    duration |-> duration, now_ts |-> clock + 1,
                                    tmp |-> 0, snap |-> None]]
        /\ UNCHANGED <<m, lock, done>>

\* line 25: with self._lock
RecordAcquire(t) ==
    /\ CanAcquire(t)
    /\ Goto(t, "rec_acquire", "load_total")
    /\ lock' = t
    /\ UNCHANGED <<m, clock, done>>

\* line 26: self.total_requests += 1
LoadTotal(t) == Load(t, "load_total", "store_total", m.total_requests)
StoreTotal(t) ==
    Store(t, "store_total", "load_path", [m EXCEPT !.total_requests = th[t].tmp + 1])

\* line 27: self.path_counters[path] += 1
LoadPath(t) == Load(t, "load_path", "store_path", m.path_counters[th[t].path])
StorePath(t) ==
    Store(t, "store_path", "load_status",
          [m EXCEPT !.path_counters[th[t].path] = th[t].tmp + 1])

\* line 28: self.status_counters[status_code] += 1
LoadStatus(t) == Load(t, "load_status", "store_status", m.status_counters[th[t].status])
StoreStatus(t) ==
    Store(t, "store_status", "load_latency",
          [m EXCEPT !.status_counters[th[t].status] = th[t].tmp + 1])

\* line 29: self.total_latency_ms += duration_ms
LoadLatency(t) == Load(t, "load_latency", "store_latency", m.total_latency_ms)
StoreLatency(t) ==
    Store(t, "store_latency", "set_last",
          [m EXCEPT !.total_latency_ms = th[t].tmp + th[t].duration])

\* lines 30-31: the timestamp read before the lock
SetLast(t) ==
    Store(t, "set_last", "load_outcome",
          [m EXCEPT !.last_request_timestamp = th[t].now_ts])

\* lines 33-36: the success or the error counter, then the lock is released
LoadOutcome(t) ==
    Load(t, "load_outcome", "store_outcome",
         IF IsSuccess(th[t].status) THEN m.total_success ELSE m.total_errors)
StoreOutcome(t) ==
    /\ Goto(t, "store_outcome", "idle")
    /\ m' = IF IsSuccess(th[t].status)
            THEN [m EXCEPT !.total_success = th[t].tmp + 1]
            ELSE [m EXCEPT !.total_errors = th[t].tmp + 1]
    /\ lock' = IF lock = t THEN 0 ELSE lock
    /\ done' = [done EXCEPT ![th[t].status] = @ + 1]
    /\ UNCHANGED clock

\* snapshot(): line 40, with self._lock
SnapshotAcquire(t) ==
    /\ CanAcquire(t)
    /\ th[t].pc = "idle"
    /\ th' = [th EXCEPT ![t].pc = "snap_totals", ![t].path = "", ![t].status = 0,
                        ![t].duration = 0, ![t].now_ts = 0,
                        ![t].snap = Some([total_requests |-> 0, total_success |-> 0,
                                          total_errors |-> 0, latency_sum |-> 0,
                                          latency_count |-> 0,
                                          by_path |-> [p \in Paths |-> 0],
                                          by_status_code |-> [c \in StatusCodes |-> 0],
                                          last_request_timestamp |-> 0])]
    /\ lock' = t
    /\ UNCHANGED <<m, clock, done>>

\* thread t fills part of the dict it is building
Fill(t, from, to, snap) ==
    /\ th[t].pc = from
    /\ th' = [th EXCEPT ![t].pc = to, ![t].snap = Some(snap)]
    /\ UNCHANGED <<m, lock, clock, done>>

\* lines 41-45: the average latency, kept as the sum and the count it divides
SnapAverage(t) ==
    Fill(t, "snap_totals", "snap_requests",
         [th[t].snap[1] EXCEPT !.latency_sum = m.total_latency_ms,
                               !.latency_count = m.total_requests])

\* lines 48-50
SnapRequests(t) ==
    Fill(t, "snap_requests", "snap_success",
         [th[t].snap[1] EXCEPT !.total_requests = m.total_requests])
SnapSuccess(t) ==
    Fill(t, "snap_success", "snap_errors",
         [th[t].snap[1] EXCEPT !.total_success = m.total_success])
SnapErrors(t) ==
    Fill(t, "snap_errors", "snap_by_path",
         [th[t].snap[1] EXCEPT !.total_errors = m.total_errors])

\* lines 52-53: the copies of the two dicts
SnapByPath(t) ==
    Fill(t, "snap_by_path", "snap_by_status",
         [th[t].snap[1] EXCEPT !.by_path = m.path_counters])
SnapByStatus(t) ==
    Fill(t, "snap_by_status", "snap_last",
         [th[t].snap[1] EXCEPT !.by_status_code = m.status_counters])

\* line 54: the timestamp
SnapLast(t) ==
    Fill(t, "snap_last", "snap_return",
         [th[t].snap[1] EXCEPT !.last_request_timestamp = m.last_request_timestamp])

\* line 56: the lock is released and the dict, complete, is returned
SnapReturn(t) ==
    /\ th[t].pc = "snap_return"
    /\ th' = [th EXCEPT ![t].pc = "idle", ![t].snap = None]
    /\ lock' = IF lock = t THEN 0 ELSE lock
    /\ UNCHANGED <<m, clock, done>>

\* ---------------------------------------------------------------------------
\* lookup_ip
\* ---------------------------------------------------------------------------
\* what city_reader.city can do
CityOutcomes ==
    { [kind |-> "ok", cause |-> ""], [kind |-> "not_found", cause |-> ""],
      [kind |-> "error", cause |-> "corrupt database"], [kind |-> "error", cause |-> "io fault"] }

\* city.location.time_zone and the instant of the call
TzInputs ==
    { [tz |-> None, summer |-> FALSE], [tz |-> Some("Mars/Olympus"), summer |-> FALSE],
      [tz |-> Some("America/Chicago"), summer |-> FALSE],
      [tz |-> Some("America/Chicago"), summer |-> TRUE] }

\* city.country.iso_code
CountryCodes == { None, Some(CC_US), Some(CC_BE), Some(CC_XX) }

\* the country fields of the record
CountryFields(meta, cc) ==
    IF cc # None /\ cc[1] \in DOMAIN meta
    THEN LET entry == meta[cc[1]]
             flag_meta == entry.flag
             svg == IF flag_meta = None THEN None ELSE flag_meta[1].svg
             emoji == OrElse(IF flag_meta = None THEN None ELSE flag_meta[1].emoji,
                             country_code_to_emoji(cc))
             emoji_unicode ==
                 OrElse(IF flag_meta = None THEN None ELSE flag_meta[1].emoji_unicode,
                        emoji_to_unicode_codes(emoji))
         IN  [calling_code |-> entry.calling_code, capital |-> entry.capital,
              borders |-> entry.borders,
              flag |-> Some([svg |-> svg, emoji |-> emoji, emoji_unicode |-> emoji_unicode])]
    ELSE [calling_code |-> None, capital |-> None, borders |-> None, flag |-> None]

\* CityError reporting every failed city lookup as not_found
CityError_allnotfound(city) == <<"not_found">>

\* the error of a failed city lookup
CityError(city) ==
    IF city.kind = "not_found" THEN <<"not_found">>
    ELSE <<"lookup_error", ":", city.cause>>

\* lookup_ip(ip): [data, err] and the backends called
lookup_ip(meta, ip, city, tzin, cc, asnOut, dns) ==
    IF ip_address(ip) = "ValueError"
    THEN [data |-> None, err |-> <<"invalid_ip">>, calls |-> <<>>]
    ELSE IF city.kind # "ok"
    THEN [data |-> None, err |-> CityError(city), calls |-> <<"city">>]
    ELSE LET cf == CountryFields(meta, cc)
             conn == lookup_connection(asnOut, dns)
         IN  [data |-> Some([ip |-> ip, success |-> TRUE, type |-> ip_address(ip),
                             country_code |-> cc,
                             calling_code |-> cf.calling_code, capital |-> cf.capital,
                             borders |-> cf.borders, flag |-> cf.flag,
                             connection |-> conn.connection,
                             timezone |-> build_timezone_info(tzin.tz, tzin.summer)]),
              err |-> None,
              calls |-> <<"city">> \o conn.calls]

\* ---------------------------------------------------------------------------
\* GET /ip/<ip> (app.ip_lookup)
\* ---------------------------------------------------------------------------
\* formatters.to_ipwhois_format: the record in the ipwho.is layout
to_ipwhois_format(data) == [ipwhois |-> data]

\* err.startswith(prefix)
StartsWith(err, prefix) == err # None /\ err[1] = prefix

\* the response of ip_lookup for what lookup_ip returned
Respond(ip, compat, r) ==
    IF r.err = <<"invalid_ip">>
    THEN [status |-> 400, body |-> [error |-> <<"invalid_ip">>, ip |-> ip]]
    ELSE IF r.err = <<"not_found">>
    THEN [status |-> 404, body |-> [error |-> <<"ip_not_found">>, ip |-> ip]]
    ELSE IF StartsWith(r.err, "lookup_error")
    THEN [status |-> 502, body |-> [error |-> <<"lookup_failed">>, details |-> r.err]]
    ELSE IF compat = "ipwhois"
    THEN [status |-> 200, body |-> to_ipwhois_format(r.data)]
    ELSE [status |-> 200, body |-> [record |-> r.data]]

\* the addresses requested: "999.1.1.1", "1.2.3", "10.0.0.5", "8.8.8.8",
\* "2001:4860:4860::8888"
PipelineAddresses ==
    { <<999, 1, 1, 1>>, <<1, 2, 3>>, <<10, 0, 0, 5>>, <<8, 8, 8, 8>>,
      <<8193, 18528, 18528, 0, 0, 0, 0, 34952>> }

Compats == { "", "ipwhois" }

\* the first domain resolution made is remembered, for comparison with later ones
Remember(w, ip, r) ==
    IF w = None /\ Len(r.calls) = 3 THEN Some([ip |-> ip, domain |-> r.data[1].connection[1].domain])
    ELSE w

\* the state after one request, given what the backends did and lookup_ip returned
Answer(ip, compat, e, r) ==
    /\ req' = [ip |-> ip, compat |-> compat]
    /\ env' = e
    /\ ret' = [data |-> r.data, err |-> r.err]
    /\ calls' = r.calls
    /\ resp' = Respond(ip, compat, r)
    /\ warm' = Remember(warm, ip, r)
    /\ UNCHANGED COUNTRY_META

\* outcomes of the backends a request never reaches (lookup_ip ignores them)
NoCity == [kind |-> "not_found", cause |-> ""]
NoTz == [tz |-> None, summer |-> FALSE]
NoAsn == [kind |-> "not_found", asn |-> 0, org |-> "", network |-> ""]
NoDns == [kind |-> "herror", hostname |-> <<"">>]

\* lookup_ip under a record of backend outcomes
Run(ip, e) == lookup_ip(COUNTRY_META, ip, e.city, e.tz, e.cc, e.asn, e.dns)

\* a request whose backends do e
Serve(ip, compat, e) == Answer(ip, compat, e, Run(ip, e))

\* one request GET /ip/<ip>?compat=..., with what each backend it reaches does
ip_lookup ==
    \E ip \in PipelineAddresses, compat \in Compats :
        IF ip_address(ip) = "ValueError"
        THEN Serve(ip, compat,
                   [city |-> NoCity, tz |-> NoTz, cc |-> None, asn |-> NoAsn, dns |-> NoDns])
        ELSE \E city \in CityOutcomes :
            IF city.kind # "ok"
            THEN Serve(ip, compat,
                       [city |-> city, tz |-> NoTz, cc |-> None, asn |-> NoAsn, dns |-> NoDns])
            ELSE \E tzin \in TzInputs, cc \in CountryCodes, asnOut \in AsnOutcomes :
                IF ~DomainStepRuns(asnOut)
                THEN Serve(ip, compat,
                           [city |-> city, tz |-> tzin, cc |-> cc, asn |-> asnOut, dns |-> NoDns])
                ELSE \E dns \in DnsOutcomes :
                    Serve(ip, compat,
                          [city |-> city, tz |-> tzin, cc |-> cc, asn |-> asnOut, dns |-> dns])

PipeInit ==
    /\ COUNTRY_META \in {CountryMetaFile, CountryMetaMissing}
    /\ req = [ip |-> <<>>, compat |-> ""]
    /\ env = [city |-> NoCity, tz |-> NoTz, cc |-> None, asn |-> NoAsn, dns |-> NoDns]
    /\ ret = [data |-> None, err |-> None]
    /\ calls = <<>>
    /\ resp = [status |-> 0, body |-> [record |-> None]]
    /\ warm = None

\* ---------------------------------------------------------------------------
\* Properties of the pipeline
\* ---------------------------------------------------------------------------
\* a request has been served
Served == resp.status # 0
\* the requested strings that are no IPv4 or IPv6 address: "999.1.1.1", "1.2.3"
Malformed == { <<999, 1, 1, 1>>, <<1, 2, 3>> }
Parses == req.ip \notin Malformed
CityOk == Parses /\ env.city.kind = "ok"
Record == ret.data[1]

\* C1: an address that does not parse gets the invalid-address error, no
\* record, and no call of the city reader, the ASN reader, reverse DNS or the
\* registry.
C1_InvalidAddressShortCircuits ==
    (Served /\ ~Parses) =>
        /\ ret = [data |-> None, err |-> <<"invalid_ip">>]
        /\ calls = <<>>

C1_Witness == Served /\ req.ip = <<999, 1, 1, 1>>

\* C2: the status is decided by the parse and the city lookup alone: 400 iff
\* the address does not parse, 404 iff it parses and the city is not found,
\* 502 iff it parses and the city lookup fails otherwise (the cause in the
\* body), 200 with the record in every other case.
C2_StatusFromParseAndCity ==
    Served =>
        /\ resp.status \in {200, 400, 404, 502}
        /\ (resp.status = 400) <=> ~Parses
        /\ (resp.status = 404) <=> (Parses /\ env.city.kind = "not_found")
        /\ (resp.status = 502) <=> (Parses /\ env.city.kind = "error")
        /\ (resp.status = 502) =>
               resp.body = [error |-> <<"lookup_failed">>,
                            details |-> <<"lookup_error", ":", env.city.cause>>]
        /\ (resp.status = 200) <=> CityOk
        /\ (resp.status = 200) =>
               /\ ret.data # None /\ ret.err = None
               /\ req.compat = "" => resp.body = [record |-> ret.data]
               /\ req.compat = "ipwhois" => resp.body = to_ipwhois_format(ret.data)

C2_Witness ==
    /\ resp.status = 502 /\ env.city.cause = "io fault"
    /\ req.ip = <<8, 8, 8, 8>>

\* the enrichment fields that C3 holds to be null when their source is unavailable
C3_SecondaryFieldsNull ==
    /\ env.asn.kind # "ok" => Record.connection = None
    /\ (env.asn.kind = "ok" /\ env.dns.kind # "ok") =>
           (Record.connection # None /\ Record.connection[1].domain = None)
    /\ (env.cc = None \/ env.cc[1] \notin DOMAIN COUNTRY_META) =>
           /\ Record.calling_code = None /\ Record.capital = None
           /\ Record.borders = None /\ Record.flag = None

\* C3 as stated: with the city found the record has success = true and no
\* error whatever the secondary steps do, and the field of every unavailable
\* enrichment, the timezone of an absent or unloadable zone id included, is null.
C3_AsStated ==
    (Served /\ CityOk) =>
        /\ ret.data # None /\ ret.err = None /\ Record.success
        /\ C3_SecondaryFieldsNull
        /\ (env.tz.tz = None \/ ~ZoneLoadable(env.tz.tz[1])) => Record.timezone = None

\* C3 amended: as stated, except that an unloadable zone id gives a timezone
\* object carrying only the id; the timezone is null when the id is absent.
C3_SecondaryFailuresNeverFail ==
    (Served /\ CityOk) =>
        /\ ret.data # None /\ ret.err = None /\ Record.success
        /\ C3_SecondaryFieldsNull
        /\ env.tz.tz = None => Record.timezone = None
        /\ (env.tz.tz # None /\ ~ZoneLoadable(env.tz.tz[1])) =>
               /\ Record.timezone # None
               /\ Record.timezone[1].id = env.tz.tz[1]
               /\ ~Record.timezone[1].full /\ Record.timezone[1].utc = None

C3_Witness ==
    /\ Served /\ CityOk
    /\ env.asn.kind = "error"
    /\ env.tz.tz = Some("Mars/Olympus")
    /\ env.cc = Some(CC_XX)
    /\ ret.data # None /\ Record.success

\* C4: whenever the city lookup succeeds the domain step is attempted, also
\* when the ASN lookup found nothing or raised.
C4_DomainAlwaysAttempted ==
    (Served /\ CityOk) => \E i \in DOMAIN calls : calls[i] = "rdns"

\* C6: for the private address 10.0.0.5 with city and ASN data the record has
\* no connection.domain and no reverse-DNS lookup was made.
C6_PrivateAddressNoDomain ==
    (Served /\ CityOk /\ req.ip = <<10, 0, 0, 5>> /\ env.asn.kind = "ok") =>
        /\ Record.connection # None /\ Record.connection[1].domain = None
        /\ \A i \in DOMAIN calls : calls[i] # "rdns"

\* C10: a later resolution of an address already resolved gives the same
\* domain as the first one, whatever DNS answers the second time.
C10_SameDomainOnRepeat ==
    (warm # None /\ Served /\ req.ip = warm[1].ip /\ Len(calls) = 3) =>
        Record.connection[1].domain = warm[1].domain

\* C15: when the reverse lookup succeeds with a non-empty host name, the
\* domain in the record is the name's last two labels, lower-cased, or the
\* whole name, lower-cased, when it has a single label.
C15_DomainLastTwoLowerCased ==
    (Served /\ CityOk /\ env.asn.kind = "ok"
     /\ env.dns.kind = "ok" /\ env.dns.hostname # <<"">>) =>
        /\ Record.connection # None
        /\ Record.connection[1].domain =
               Some(IF Len(env.dns.hostname) >= 2
                    THEN <<LowerLabel(env.dns.hostname[Len(env.dns.hostname) - 1]),
                           LowerLabel(env.dns.hostname[Len(env.dns.hostname)])>>
                    ELSE <<LowerLabel(env.dns.hostname[1])>>)

vars == <<pipeVars, domVars, metVars, tzVars, resVars>>

\* ---------------------------------------------------------------------------
\* Specifications
\* ---------------------------------------------------------------------------
\* the pipeline serving requests
Init == PipeInit /\ DomInit(DefaultSettings) /\ MetInit /\ TzInit /\ ResInit

Next == ip_lookup /\ UNCHANGED <<domVars, metVars, tzVars, resVars>>

Spec == Init /\ [][Next]_vars

\* the domain resolver called directly, under any settings
PipeIdle == PipeInit /\ COUNTRY_META = CountryMetaFile

InitDomain == PipeIdle /\ MetInit /\ TzInit /\ ResInit /\ \E st \in Settings : DomInit(st)

NextDomain == resolve_domain_for_ip /\ UNCHANGED <<pipeVars, metVars, tzVars, resVars>>

SpecDomain == InitDomain /\ [][NextDomain]_vars

\* the metrics collector under concurrent callers
InitMetrics == PipeIdle /\ DomInit(DefaultSettings) /\ MetInit /\ TzInit /\ ResInit

NextMetrics ==
    \/ \E t \in Threads : RecordBegin(t) /\ UNCHANGED <<pipeVars, domVars, tzVars, resVars>>
    \/ \E t \in Threads : RecordAcquire(t) /\ UNCHANGED <<pipeVars, domVars, tzVars, resVars>>
    \/ \E t \in Threads : LoadTotal(t) /\ UNCHANGED <<pipeVars, domVars, tzVars, resVars>>
    \/ \E t \in Threads : StoreTotal(t) /\ UNCHANGED <<pipeVars, domVars, tzVars, resVars>>
    \/ \E t \in Threads : LoadPath(t) /\ UNCHANGED <<pipeVars, domVars, tzVars, resVars>>
    \/ \E t \in Threads : StorePath(t) /\ UNCHANGED <<pipeVars, domVars, tzVars, resVars>>
    \/ \E t \in Threads : LoadStatus(t) /\ UNCHANGED <<pipeVars, domVars, tzVars, resVars>>
    \/ \E t \in Threads : StoreStatus(t) /\ UNCHANGED <<pipeVars, domVars, tzVars, resVars>>
    \/ \E t \in Threads : LoadLatency(t) /\ UNCHANGED <<pipeVars, domVars, tzVars, resVars>>
    \/ \E t \in Threads : StoreLatency(t) /\ UNCHANGED <<pipeVars, domVars, tzVars, resVars>>
    \/ \E t \in Threads : SetLast(t) /\ UNCHANGED <<pipeVars, domVars, tzVars, resVars>>
    \/ \E t \in Threads : LoadOutcome(t) /\ UNCHANGED <<pipeVars, domVars, tzVars, resVars>>
    \/ \E t \in Threads : StoreOutcome(t) /\ UNCHANGED <<pipeVars, domVars, tzVars, resVars>>
    \/ \E t \in Threads : SnapshotAcquire(t) /\ UNCHANGED <<pipeVars, domVars, tzVars, resVars>>
    \/ \E t \in Threads : SnapAverage(t) /\ UNCHANGED <<pipeVars, domVars, tzVars, resVars>>
    \/ \E t \in Threads : SnapRequests(t) /\ UNCHANGED <<pipeVars, domVars, tzVars, resVars>>
    \/ \E t \in Threads : SnapSuccess(t) /\ UNCHANGED <<pipeVars, domVars, tzVars, resVars>>
    \/ \E t \in Threads : SnapErrors(t) /\ UNCHANGED <<pipeVars, domVars, tzVars, resVars>>
    \/ \E t \in Threads : SnapByPath(t) /\ UNCHANGED <<pipeVars, domVars, tzVars, resVars>>
    \/ \E t \in Threads : SnapByStatus(t) /\ UNCHANGED <<pipeVars, domVars, tzVars, resVars>>
    \/ \E t \in Threads : SnapLast(t) /\ UNCHANGED <<pipeVars, domVars, tzVars, resVars>>
    \/ \E t \in Threads : SnapReturn(t) /\ UNCHANGED <<pipeVars, domVars, tzVars, resVars>>

SpecMetrics == InitMetrics /\ [][NextMetrics]_vars

\* the timezone enrichment formatting the offsets of loaded zones
InitTimezone == PipeIdle /\ DomInit(DefaultSettings) /\ MetInit /\ TzLoaded /\ ResInit

NextTimezone == format_offset /\ UNCHANGED <<pipeVars, domVars, metVars, resVars>>

SpecTimezone == InitTimezone /\ [][NextTimezone]_vars

\* one caller looking keys up through the two caches, any number of times
InitLookups == PipeIdle /\ DomInit(DefaultSettings) /\ MetInit /\ TzInit /\ ResInit

NextLookups ==
    \/ Lookup(1) /\ UNCHANGED <<pipeVars, metVars, tzVars, ncalls>>
    \/ GetHostByAddr(1) /\ UNCHANGED <<pipeVars, metVars, tzVars>>
    \/ HttpGet(1) /\ UNCHANGED <<pipeVars, metVars, tzVars>>
    \/ Insert(1) /\ UNCHANGED <<pipeVars, metVars, tzVars>>
    \/ ReturnCall(1) /\ UNCHANGED <<pipeVars, metVars, tzVars>>

SpecLookups == InitLookups /\ [][NextLookups]_vars

\* several threads looking keys up through the two caches
NextThreads ==
    \/ \E t \in Resolvers : StartLookup(t) /\ UNCHANGED <<pipeVars, metVars, tzVars>>
    \/ \E t \in Resolvers : GetHostByAddr(t) /\ UNCHANGED <<pipeVars, metVars, tzVars>>
    \/ \E t \in Resolvers : HttpGet(t) /\ UNCHANGED <<pipeVars, metVars, tzVars>>
    \/ \E t \in Resolvers : Insert(t) /\ UNCHANGED <<pipeVars, metVars, tzVars>>
    \/ \E t \in Resolvers : ReturnCall(t) /\ UNCHANGED <<pipeVars, metVars, tzVars>>

SpecThreads == InitLookups /\ [][NextThreads]_vars

\* ---------------------------------------------------------------------------
\* Properties of the timezone enrichment
\* ---------------------------------------------------------------------------
\* the number a digit sequence writes
RECURSIVE Numeral(_)
Numeral(ds) == IF ds = <<>> THEN 0 ELSE 10 * Numeral(SubSeq(ds, 1, Len(ds) - 1)) + ds[Len(ds)]

IsDigits(ds) == \A i \in DOMAIN ds : ds[i] \in 0..9

\* C11: the string formatted for an offset of whole seconds is sign, two-digit
\* hours, ":", two-digit minutes: the sign is "+" when the offset is >= 0 and
\* "-" otherwise, the hours are |offset| div 3600 and the minutes
\* (|offset| mod 3600) div 60; 0 gives +00:00 and -21600 gives -06:00.
C11_OffsetFormat ==
    tzinfo.utc # None =>
        LET utc_str == tzinfo.utc[1]
            magnitude == IF tzinfo.offset < 0 THEN 0 - tzinfo.offset ELSE tzinfo.offset
        IN  /\ utc_str.sign = "+" <=> tzinfo.offset >= 0
            /\ utc_str.sign = "-" <=> tzinfo.offset < 0
            /\ Len(utc_str.hh) = 2 /\ IsDigits(utc_str.hh)
            /\ Len(utc_str.mm) = 2 /\ IsDigits(utc_str.mm)
            /\ Numeral(utc_str.hh) * 3600 <= magnitude
            /\ magnitude < (Numeral(utc_str.hh) + 1) * 3600
            /\ Numeral(utc_str.mm) * 60 <= magnitude - Numeral(utc_str.hh) * 3600
            /\ magnitude - Numeral(utc_str.hh) * 3600 < (Numeral(utc_str.mm) + 1) * 60
            /\ tzinfo.offset = 0 =>
                   utc_str = [sign |-> "+", hh |-> <<0, 0>>, mm |-> <<0, 0>>]
            /\ tzinfo.offset = -21600 =>
                   utc_str = [sign |-> "-", hh |-> <<0, 6>>, mm |-> <<0, 0>>]

C11_Witness ==
    /\ tzinfo.offset = -12645
    /\ tzinfo.utc = Some([sign |-> "-", hh |-> <<0, 3>>, mm |-> <<3, 0>>])

\* ---------------------------------------------------------------------------
\* Properties of the domain resolver
\* ---------------------------------------------------------------------------
\* the private, loopback, link-local and reserved addresses among the arguments:
\* "10.0.0.5", "127.0.0.1", "169.254.1.1", "240.0.0.1", "4000::1"
NonRoutable ==
    { <<10, 0, 0, 5>>, <<127, 0, 0, 1>>, <<169, 254, 1, 1>>, <<240, 0, 0, 1>>,
      <<16384, 0, 0, 0, 0, 0, 0, 1>> }

\* C5: a call for a private, loopback, reserved or link-local address, with
\* any ASN and under any settings, returns no domain, makes no reverse-DNS
\* lookup and no registry fetch, and leaves both caches as they were.
C5_NonRoutableSkipsLookups ==
    [][ dres'.ip \in NonRoutable =>
            /\ dres'.result = None /\ dres'.raised = None
            /\ dres'.net = <<>>
            /\ rdnsCache' = rdnsCache /\ pdbCache' = pdbCache ]_vars

C5_Witness ==
    /\ dres.ip = <<10, 0, 0, 5>> /\ dres.asn = Some(15169)
    /\ cfg = DefaultSettings
    /\ rdnsCache # <<>> /\ pdbCache # <<>>
    /\ dres.result = None

\* C7: resolve_domain_for_ip never raises, whatever its stages meet (a DNS
\* error, a timeout, a failed request, a non-200 status, an unparsable page,
\* a missing website element, any website string), and a failed reverse-DNS
\* stage still lets the registry stage run.
C7_NeverRaises ==
    /\ dres.raised = None
    /\ (cfg.peeringdb /\ dres.asn # None /\ dres.net # <<>> /\ dres.net[1] = "rdns"
        /\ CacheVal(rdnsCache, dres.ip) = None) => CacheHas(pdbCache, dres.asn[1])

\* the routable addresses among the arguments: "8.8.8.8", "1.1.1.1"
RoutableArgs == { <<8, 8, 8, 8>>, <<1, 1, 1, 1>> }

\* the last call invoked the stage; the reverse-DNS stage gave a domain
StageInvoked(stage) == \E i \in DOMAIN dres.stages : dres.stages[i].stage = stage
RdnsProduced ==
    \E i \in DOMAIN dres.stages :
        dres.stages[i].stage = "rdns" /\ dres.stages[i].val # None
StageOrder == [i \in DOMAIN dres.stages |-> dres.stages[i].stage]

\* what C12 says of the stages of a call, given that the stages' own toggles
\* are in effect
C12_StagePolicy ==
    /\ StageOrder \in { <<>>, <<"rdns">>, <<"registry">>, <<"rdns", "registry">> }
    /\ RdnsProduced =>
           /\ dres.result = dres.stages[1].val
           /\ ~StageInvoked("registry")
           /\ \A i \in DOMAIN dres.net : dres.net[i] # "registry"
    /\ (~cfg.rdns /\ ~cfg.peeringdb) =>
           dres.net = <<>> /\ dres.result = None /\ dres.raised = None

\* C12 as stated: for a routable address the reverse-DNS stage is invoked
\* exactly when it is enabled, the registry stage exactly when it is enabled,
\* an ASN is given and reverse DNS was disabled or gave nothing; a reverse-DNS
\* domain is returned without contacting the registry; with both stages
\* disabled there is no network call and no domain.
C12_AsStated ==
    dres.ip \in RoutableArgs =>
        /\ StageInvoked("rdns") <=> cfg.rdns
        /\ StageInvoked("registry") <=>
               (cfg.peeringdb /\ dres.asn # None /\ (~cfg.rdns \/ ~RdnsProduced))
        /\ C12_StagePolicy

\* C12 amended: as stated while domain resolution as a whole is enabled; with
\* it disabled no stage is invoked, whatever the stages' own toggles say.
C12_StagesInPriorityOrder ==
    dres.ip \in RoutableArgs =>
        /\ StageInvoked("rdns") <=> (cfg.enabled /\ cfg.rdns)
        /\ StageInvoked("registry") <=>
               (cfg.enabled /\ cfg.peeringdb /\ dres.asn # None
                /\ (~cfg.rdns \/ ~RdnsProduced))
        /\ C12_StagePolicy
        /\ ~cfg.enabled => (dres.stages = <<>> /\ dres.net = <<>> /\ dres.result = None)

C12_Witness ==
    /\ cfg = DefaultSettings
    /\ dres.ip = <<8, 8, 8, 8>> /\ dres.asn = Some(16276)
    /\ StageOrder = <<"rdns", "registry">>
    /\ dres.stages[1].val = None
    /\ dres.net = <<"rdns", "registry">>
    /\ dres.result = Some(<<"ovhcloud", "com">>)

\* ---------------------------------------------------------------------------
\* Properties of the two caches
\* ---------------------------------------------------------------------------
\* the last n elements of a sequence
LastN(u, n) == IF Len(u) <= n THEN u ELSE SubSeq(u, Len(u) - n + 1, Len(u))

\* the keys used most recently, as many as the cache of fn may hold
RecentKeys(fn) ==
    { LastN(used[fn], MaxSize(fn))[i].key : i \in DOMAIN LastN(used[fn], MaxSize(fn)) }

\* C13: each cache never holds more entries than its configured capacity; it
\* holds exactly the keys used most recently, a hit counting as a use, so that
\* the entry a miss on a full cache evicts is the least recently used one; a
\* lookup invokes the underlying strategy (once) exactly when its key was
\* never looked up or has been evicted, and not when the key is still cached.
C13_LruBound ==
    /\ \A fn \in CachedFunctions :
          /\ Len(CacheOf(fn)) <= MaxSize(fn)
          /\ CacheOf(fn) = LastN(used[fn], MaxSize(fn))
    /\ rt[1].pc = "call" => (rt[1].key \notin RecentKeys(rt[1].fn) /\ rt[1].net = 0)
    /\ rt[1].pc = "insert" => (rt[1].key \notin RecentKeys(rt[1].fn) /\ rt[1].net = 1)
    /\ rt[1].pc = "ret" =>
          /\ rt[1].key \in RecentKeys(rt[1].fn)
          /\ rt[1].hit <=> rt[1].net = 0
          /\ ~rt[1].hit <=> rt[1].net = 1

C13_Witness ==
    /\ Len(used["rdns"]) = 3 /\ Len(rdnsCache) = REVERSE_DNS_CACHE_SIZE
    /\ rt[1].pc = "insert" /\ rt[1].fn = "rdns" /\ rt[1].net = 1
    /\ rt[1].key = used["rdns"][1].key

\* C14: with several threads going through a shared cache, in every
\* interleaving the cache has at most one entry per key and at most capacity
\* entries; a thread whose lookup missed has made exactly one underlying call
\* when it returns and a thread whose lookup hit has made none.
C14_ConcurrentCacheSafe ==
    /\ \A fn \in CachedFunctions :
          /\ Len(CacheOf(fn)) <= MaxSize(fn)
          /\ Cardinality(CacheKeys(CacheOf(fn))) = Len(CacheOf(fn))
    /\ \A t \in Resolvers :
          /\ rt[t].pc = "call" => (~rt[t].hit /\ rt[t].net = 0)
          /\ rt[t].pc = "insert" => (~rt[t].hit /\ rt[t].net = 1)
          /\ rt[t].pc = "ret" => rt[t].net = (IF rt[t].hit THEN 0 ELSE 1)

\* two threads missed on the same key, both called the strategy, and the
\* cache holds one entry for the key
C14_Witness ==
    \E t, u \in Resolvers :
        /\ t # u
        /\ rt[t].pc = "ret" /\ rt[u].pc = "ret"
        /\ rt[t].fn = "rdns" /\ rt[u].fn = "rdns" /\ rt[t].key = rt[u].key
        /\ ~rt[t].hit /\ ~rt[u].hit /\ rt[t].net = 1 /\ rt[u].net = 1
        /\ Len(SelectSeq(rdnsCache, LAMBDA e : e.key = rt[t].key)) = 1

\* C16: a strategy's "nothing" is cached like a domain: while the key is among
\* the most recently used, its entry holds the nothing the strategy returned,
\* a lookup of it returns that nothing without a network call, and the
\* strategy runs again only for a key never looked up or evicted by capacity.
C16_FailuresAreCached ==
    /\ \A fn \in CachedFunctions :
          \A i \in DOMAIN LastN(used[fn], MaxSize(fn)) :
              LET e == LastN(used[fn], MaxSize(fn))[i]
              IN  e.val = None => (CacheHas(CacheOf(fn), e.key)
                                   /\ CacheVal(CacheOf(fn), e.key) = None)
    /\ (rt[1].pc = "ret" /\ rt[1].hit /\ Returned(used[rt[1].fn], rt[1].key) = None) =>
          (rt[1].val = None /\ rt[1].net = 0)
    /\ rt[1].pc \in {"call", "insert"} => rt[1].key \notin RecentKeys(rt[1].fn)

C16_Witness ==
    /\ rt[1].pc = "ret" /\ rt[1].hit /\ rt[1].fn = "pdb"
    /\ rt[1].val = None /\ rt[1].net = 0
    /\ Len(used["pdb"]) = 3
    /\ \E i \in DOMAIN rdnsCache : rdnsCache[i].val = None

\* ---------------------------------------------------------------------------
\* Properties of the metrics collector
\* ---------------------------------------------------------------------------
Completed == SumOver(done, StatusCodes)

\* the threads inside record_request that have stored total_requests
PastTotal ==
    { t \in Threads : th[t].pc \in { "load_path", "store_path", "load_status",
                                     "store_status", "load_latency", "store_latency",
                                     "set_last", "load_outcome", "store_outcome" } }

\* the snapshots about to be returned
Returning == { t \in Threads : th[t].pc = "snap_return" }

\* C8: with record_request and snapshot running concurrently no update is
\* lost and no read is torn: total_requests counts every call that has stored
\* it (after N completed calls and none under way it is N), and every snapshot
\* returned has total_requests = total_success + total_errors = the sum of
\* by_path = the sum of by_status_code.
C8_NoLostUpdateNoTornRead ==
    /\ m.total_requests = Completed + Cardinality(PastTotal)
    /\ \A t \in Returning :
          LET snap == th[t].snap[1]
          IN  /\ snap.total_requests = snap.total_success + snap.total_errors
              /\ snap.total_requests = SumOver(snap.by_path, Paths)
              /\ snap.total_requests = SumOver(snap.by_status_code, StatusCodes)

C8_Witness ==
    \E t, u \in Threads :
        /\ th[t].pc = "snap_return" /\ th[t].snap[1].total_requests = 2
        /\ th[u].pc = "rec_acquire"
        /\ Completed = 2

\* the status codes in [200, 400)
SuccessCodes == { c \in StatusCodes : c >= 200 /\ c < 400 }

\* C9: every completed call has incremented total_requests, and total_success
\* when its status code is in [200, 400), total_errors otherwise; recording
\* 200, 404 and 500 gives a snapshot with 3 requests, 1 success, 2 errors.
C9_SuccessErrorClassification ==
    /\ lock = 0 =>
          /\ m.total_requests = Completed
          /\ m.total_success = SumOver(done, SuccessCodes)
          /\ m.total_errors = SumOver(done, StatusCodes \ SuccessCodes)
    /\ \A t \in Returning :
          (done = [c \in StatusCodes |-> IF c \in {200, 404, 500} THEN 1 ELSE 0]) =>
              /\ th[t].snap[1].total_requests = 3
              /\ th[t].snap[1].total_success = 1
              /\ th[t].snap[1].total_errors = 2

C9_Witness ==
    /\ done = [c \in StatusCodes |-> IF c \in {200, 404, 500} THEN 1 ELSE 0]
    /\ \E t \in Returning :
          /\ th[t].snap[1].total_requests = 3
          /\ th[t].snap[1].total_success = 1
          /\ th[t].snap[1].total_errors = 2

====
